---------------------------- MODULE Spec2Model ----------------------------
(***************************************************************************)
(* Model of utils/phase_1.py: the two-pass detect / align / re-detect /    *)
(* crop pipeline PhaseOne.run and the geometry helpers it is built from.   *)
(*                                                                         *)
(* Numbers.  Pixel coordinates are Python ints.  A detection is the flat   *)
(* record the detector returns; only its first eight fields are read by    *)
(* the code (box y_min, x_min, y_max, x_max, right eye x, y, left eye x,   *)
(* y).  A normalised field is kept as an integer count of 1/Den, so the    *)
(* field value is d[i] / Den; products with integers are exact rationals   *)
(* and int() is truncation toward zero.                                    *)
(*                                                                         *)
(* Images.  An image is [shape, px, ops]: shape = <<height, width,         *)
(* channels>>, px the rows of pixels (each pixel a tuple of channel        *)
(* samples).  np.hstack, np.vstack and slicing act on px.  The pixels      *)
(* cv2.warpAffine computes are cv2's interpolation, which this repository  *)
(* does not decide: a warped image keeps the source pixels in px and the   *)
(* call's parameters in ops, and a slice of a warped image appends the     *)
(* slice to ops.                                                           *)
(***************************************************************************)
EXTENDS Integers, Sequences, FiniteSets, TLC

VARIABLES
  pc,               \* position inside PhaseOne.run
  img,              \* run's argument
  margin,           \* self.margin
  padded_img,       \* local of run
  detections,       \* local of run (assigned twice)
  biggest_face_idx, \* local of run (assigned twice)
  rotated,          \* local of run
  status,           \* first component of run's return value
  out,              \* second component of run's return value
  log,              \* history of the steps run has taken
  op,               \* unit harness: name of the function under call
  args,             \* unit harness: its arguments
  called,           \* unit harness: TRUE once the function has returned
  ret               \* unit harness: its return value

runVars  == <<pc, img, margin, padded_img, detections, biggest_face_idx,
              rotated, status, out, log>>
unitVars == <<op, args, called, ret>>
vars     == <<pc, img, margin, padded_img, detections, biggest_face_idx,
              rotated, status, out, log, op, args, called, ret>>

----------------------------------------------------------------------------
(* Bounds of the model *)

MaxDim == 4     \* image heights and widths range over 1..MaxDim
MaxDets == 2    \* a detection batch holds 0..MaxDets detections
MaxCoord == 3   \* box coordinates of the unit calls range over -1..MaxCoord
MaxRatio == 2   \* ratio components of the unit calls range over 1..MaxRatio
MaxSeed == 1    \* pixel patterns of the unit calls range over 0..MaxSeed

Den == 10       \* a normalised detection field k stands for k / Den

----------------------------------------------------------------------------
(* Python arithmetic *)

\* int(n / d) for integers n and d > 0: true division, then truncation
\* toward zero
TruncDiv(n, d) == IF n >= 0 THEN n \div d ELSE -((-n) \div d)

\* math.floor(n / d) for d > 0; also Python's n // d
FloorDiv(n, d) == n \div d

\* F applied to the value of e, with e evaluated once (a LET definition is
\* evaluated again at each of its uses when TLC computes ENABLED)
Bind(e, F(_)) == CHOOSE r \in {F(v) : v \in {e}} : TRUE

Max(a, b) == IF a >= b THEN a ELSE b
Min(a, b) == IF a <= b THEN a ELSE b

\* Python's slice bounds s[a:b] on a sequence of length n, for a, b >= 0:
\* the elements a+1 .. b (1-based), none when a >= b
Slice(s, a, b) == SubSeq(s, Min(a, Len(s)) + 1, Min(b, Len(s)))

Digit(ch) ==
  CASE ch = "0" -> 0 [] ch = "1" -> 1 [] ch = "2" -> 2 [] ch = "3" -> 3
    [] ch = "4" -> 4 [] ch = "5" -> 5 [] ch = "6" -> 6 [] ch = "7" -> 7
    [] ch = "8" -> 8 [] ch = "9" -> 9

\* the value of the decimal digits s[from], .., s[to]
RECURSIVE ParseDigits(_, _, _)
ParseDigits(s, from, to) ==
  IF to < from THEN 0
  ELSE 10 * ParseDigits(s, from, to - 1) + Digit(s[to])

\* int(s[:-1]) for a string s of an optional sign, decimal digits and one
\* last character that is dropped; a string is the tuple of its characters
ParseIntButLast(s) ==
  IF s[1] = "-" THEN -ParseDigits(s, 2, Len(s) - 1)
  ELSE IF s[1] = "+" THEN ParseDigits(s, 2, Len(s) - 1)
  ELSE ParseDigits(s, 1, Len(s) - 1)

----------------------------------------------------------------------------
(* Images *)

Image(h, w, c, px) == [shape |-> <<h, w, c>>, px |-> px, ops |-> <<>>]

\* value of the run locals before their assignment
NoImage == [shape |-> <<0, 0, 0>>, px |-> <<>>, ops |-> <<>>]

\* np.zeros((height, width, channels))
create_padding(height, width, channels) ==
  Image(height, width, channels,
        [r \in 1..height |-> [col \in 1..width |-> [ch \in 1..channels |-> 0]]])

\* np.hstack of three arrays of equal height: the rows are concatenated
hstack(a, b, c) ==
  Image(b.shape[1], a.shape[2] + b.shape[2] + c.shape[2], b.shape[3],
        [r \in 1..b.shape[1] |-> a.px[r] \o b.px[r] \o c.px[r]])

\* np.vstack of three arrays of equal width: the lists of rows are
\* concatenated
vstack(a, b, c) ==
  Image(a.shape[1] + b.shape[1] + c.shape[1], b.shape[2], b.shape[3],
        a.px \o b.px \o c.px)

\* make_image_rectangle with the larger half of an odd padding put first
make_image_rectangle_ceil(im) ==
  LET h == im.shape[1]
      w == im.shape[2]
      c == im.shape[3]
  IN IF h > w THEN
       LET pad_w == h - w
           pad_right_w == FloorDiv(pad_w, 2)
           pad_left_w == pad_w - pad_right_w
       IN hstack(create_padding(h, pad_left_w, c), im,
                 create_padding(h, pad_right_w, c))
     ELSE IF w > h THEN
       LET pad_h == w - h
           pad_bot_h == FloorDiv(pad_h, 2)
           pad_top_h == pad_h - pad_bot_h
       IN vstack(create_padding(pad_top_h, w, c), im,
                 create_padding(pad_bot_h, w, c))
     ELSE im

make_image_rectangle(im) ==
  LET h == im.shape[1]
      w == im.shape[2]
      c == im.shape[3]
  IN IF h > w THEN
       LET pad_w == h - w
           pad_left_w == FloorDiv(pad_w, 2)
           pad_right_w == pad_w - pad_left_w
       IN hstack(create_padding(h, pad_left_w, c), im,
                 create_padding(h, pad_right_w, c))
     ELSE IF w > h THEN
       LET pad_h == w - h
           pad_top_h == FloorDiv(pad_h, 2)
           pad_bot_h == pad_h - pad_top_h
       IN vstack(create_padding(pad_top_h, w, c), im,
                 create_padding(pad_bot_h, w, c))
     ELSE im

\* img[y_min:y_max, x_min:x_max] for non-negative bounds
SliceImage(im, y_min, x_min, y_max, x_max) ==
  LET h == Max(0, Min(y_max, im.shape[1]) - Min(y_min, im.shape[1]))
      w == Max(0, Min(x_max, im.shape[2]) - Min(x_min, im.shape[2]))
  IN IF im.ops = <<>> THEN
       [shape |-> <<h, w, im.shape[3]>>,
        px |-> [r \in 1..h |->
                  Slice(im.px[Min(y_min, im.shape[1]) + r], x_min, x_max)],
        ops |-> <<>>]
     ELSE
       [shape |-> <<h, w, im.shape[3]>>,
        px |-> im.px,
        ops |-> Append(im.ops,
                       [f |-> "slice", p |-> <<y_min, x_min, y_max, x_max>>])]

\* cv2.warpAffine(img, cv2.getRotationMatrix2D(center, angle, 1), dsize)
\* with angle = degrees(arctan2(dy, dx)); dsize is (width, height) of the
\* result
warpAffine(im, center, dy, dx, dsize) ==
  [shape |-> <<dsize[2], dsize[1], im.shape[3]>>,
   px |-> im.px,
   ops |-> Append(im.ops,
                  [f |-> "warpAffine",
                   p |-> <<center[1], center[2], dy, dx>>])]

reset_face_angle(im, d) ==
  LET right_eye == <<TruncDiv(d[5] * im.shape[2], Den),
                     TruncDiv(d[6] * im.shape[1], Den)>>
      left_eye == <<TruncDiv(d[7] * im.shape[2], Den),
                    TruncDiv(d[8] * im.shape[1], Den)>>
      w == im.shape[1]
      h == im.shape[2]
  IN warpAffine(im, right_eye, left_eye[2] - right_eye[2],
                left_eye[1] - right_eye[1], <<w, h>>)

----------------------------------------------------------------------------
(* Boxes, ratio, margins *)

\* A box is <<y_min, x_min, y_max, x_max>>; ratio is the tuple (ratio[0],
\* ratio[1]) of the code, here ratio[1] and ratio[2].
\* int(h / ratio[1] - w / ratio[0]) is the truncation of the exact quotient
\* (h * ratio[0] - w * ratio[1]) / (ratio[0] * ratio[1]); the float result
\* equals it for every ratio whose components are at most 2.
maintain_ratio(y_min, x_min, y_max, x_max, ratio) ==
  LET h == y_max - y_min
      w == x_max - x_min
  IN IF h * ratio[1] > w * ratio[2] THEN
       LET pad_w == TruncDiv(h * ratio[1] - w * ratio[2], ratio[1] * ratio[2])
           pad_h_left == FloorDiv(pad_w, 2)
       IN <<y_min, x_min - pad_h_left, y_max, x_max + (pad_w - pad_h_left)>>
     ELSE IF h * ratio[1] < w * ratio[2] THEN
       LET pad_h == TruncDiv(w * ratio[2] - h * ratio[1], ratio[1] * ratio[2])
           pad_w_top == FloorDiv(pad_h, 2)
       IN <<y_min - pad_w_top, x_min, y_max + (pad_h - pad_w_top), x_max>>
     ELSE <<y_min, x_min, y_max, x_max>>

\* A margin component is an int or a str: [int |-> TRUE, v |-> n] is the
\* int n, [int |-> FALSE, s |-> <<"3", "0", "%">>] the str "30%".
IntMargin(n) == [int |-> TRUE, v |-> n, s |-> <<>>]
StrMargin(s) == [int |-> FALSE, v |-> 0, s |-> s]

\* Margin.__init__
Margin(top, right, left, bottom) ==
  [top |-> top, right |-> right, left |-> left, bottom |-> bottom]

\* the value of a Python function that falls off its end
None == "None"

\* get_margin with the percentage rounded down instead of toward zero
get_margin_floor(value, m) ==
  IF m.int THEN m.v
  ELSE IF Len(m.s) > 0 /\ m.s[Len(m.s)] = "%" THEN
    FloorDiv(value * ParseIntButLast(m.s), 100)
  ELSE None

\* Margin.get_margin
get_margin(value, m) ==
  IF m.int THEN m.v
  ELSE IF Len(m.s) > 0 /\ m.s[Len(m.s)] = "%" THEN
    TruncDiv(value * ParseIntButLast(m.s), 100)
  ELSE None

\* _put_coordinates_in_range without the lower bound
put_coordinates_in_range_upper(value, max_value) == Min(value, max_value)

\* Margin._put_coordinates_in_range
put_coordinates_in_range(value, max_value) == Max(0, Min(value, max_value))

\* Margin.recalculate_coordinates
recalculate_coordinates(self, y_min, x_min, y_max, x_max, img_height, img_width, ratio) ==
  Bind(<<y_min - get_margin(y_min, self.top),
         x_min - get_margin(x_min, self.left),
         y_max + get_margin(y_max, self.bottom),
         x_max + get_margin(x_max, self.right)>>, LAMBDA e :
    Bind(maintain_ratio(e[1], e[2], e[3], e[4], ratio), LAMBDA b :
      <<put_coordinates_in_range(b[1], img_height),
        put_coordinates_in_range(b[2], img_width),
        put_coordinates_in_range(b[3], img_height),
        put_coordinates_in_range(b[4], img_width)>>))

\* the pixel box crop_face_from_img hands to recalculate_coordinates
PixelBox(im, d) ==
  <<TruncDiv(d[1] * im.shape[1], Den), TruncDiv(d[2] * im.shape[2], Den),
    TruncDiv(d[3] * im.shape[1], Den), TruncDiv(d[4] * im.shape[2], Den)>>

crop_face_from_img(im, d, m, ratio) ==
  Bind(PixelBox(im, d), LAMBDA p :
    Bind(recalculate_coordinates(m, p[1], p[2], p[3], p[4],
                                 im.shape[1], im.shape[2], ratio), LAMBDA b :
      SliceImage(im, b[1], b[2], b[3], b[4])))

----------------------------------------------------------------------------
(* Detection selector *)

\* the lambda of get_idx_of_biggest_face, in units of 1 / Den^2
Area(d) == (d[3] - d[1]) * (d[4] - d[2])

\* get_idx_of_biggest_face with argmin in place of argmax
get_idx_of_smallest_face(ds) ==
  (CHOOSE i \in 1..Len(ds) :
     /\ \A j \in 1..Len(ds) : Area(ds[i]) <= Area(ds[j])
     /\ \A j \in 1..(i - 1) : Area(ds[j]) > Area(ds[i])) - 1

\* np.argmax: the first index holding the maximum.  Indices are Python's,
\* from 0.  np.apply_along_axis raises on an empty batch, so the operator
\* is used on non-empty batches only.
get_idx_of_biggest_face(ds) ==
  (CHOOSE i \in 1..Len(ds) :
     /\ \A j \in 1..Len(ds) : Area(ds[i]) >= Area(ds[j])
     /\ \A j \in 1..(i - 1) : Area(ds[j]) < Area(ds[i])) - 1

\* detections[idx] for a Python index
At(ds, idx) == ds[idx + 1]

----------------------------------------------------------------------------
(* Inputs *)

\* an h x w x c array whose samples differ from pixel to pixel and from
\* channel to channel (uint8)
Pattern(h, w, c, seed) ==
  Image(h, w, c,
        [r \in 1..h |-> [col \in 1..w |-> [ch \in 1..c |->
           (101 * seed + 40 * ((r - 1) * w + (col - 1)) + 7 * ch) % 256]]])

Dims == 1..MaxDim

RunImages == {Pattern(h, w, 3, 0) : h \in Dims, w \in Dims}

\* the default Margin("30%", 30, 30, 5) of PhaseOne.__init__
DefaultMargin ==
  Margin(StrMargin(<<"3", "0", "%">>), IntMargin(30), IntMargin(30),
         IntMargin(5))

ZeroMargin == Margin(IntMargin(0), IntMargin(0), IntMargin(0), IntMargin(0))

PercentMargin ==
  Margin(StrMargin(<<"5", "0", "%">>), StrMargin(<<"2", "5", "%">>),
         StrMargin(<<"1", "0", "0", "%">>), IntMargin(1))

NegativeMargin ==
  Margin(IntMargin(-2), IntMargin(0), IntMargin(0), IntMargin(-2))

RunMargins == {DefaultMargin, ZeroMargin, PercentMargin}

\* detections: <<y_min, x_min, y_max, x_max, right eye x, right eye y,
\* left eye x, left eye y>> in units of 1 / Den
DetSmall == <<0, 0, 1, 1, 3, 4, 6, 4>>
DetHalf  == <<0, 0, 5, 5, 2, 3, 6, 5>>
DetOut   == <<-1, 3, 6, 11, 4, 4, 8, 2>>

DetSet == {DetSmall, DetHalf, DetOut}

RECURSIVE SeqsUpTo(_, _)
SeqsUpTo(S, n) ==
  IF n = 0 THEN {<<>>}
  ELSE LET shorter == SeqsUpTo(S, n - 1)
       IN shorter \cup {Append(q, x) : q \in shorter, x \in S}

\* what the detector may return: any batch of at most MaxDets detections
Batches == SeqsUpTo(DetSet, MaxDets)

----------------------------------------------------------------------------
(* PhaseOne.run *)

NoFaceMsg == "Warning: No face detected. Returning original image"

NoFaceAfterRotationMsg ==
  "Warning: Couldn't find face after resetting the angle. Returning original image"

Entry(step, batch) == [step |-> step, batch |-> batch]

Init ==
  /\ pc = "pad"
  /\ img \in RunImages
  /\ margin \in RunMargins
  /\ padded_img = NoImage
  /\ detections = <<>>
  /\ biggest_face_idx = -1
  /\ rotated = NoImage
  /\ status = ""
  /\ out = NoImage
  /\ log = <<>>
  /\ op = "none"
  /\ args = <<>>
  /\ called = FALSE
  /\ ret = <<>>

\* padded_img = make_image_rectangle(img)
Prepare ==
  /\ pc = "pad"
  /\ padded_img' = make_image_rectangle(img)
  /\ log' = Append(log, Entry("pad", <<>>))
  /\ pc' = "detect1"
  /\ UNCHANGED <<img, margin, detections, biggest_face_idx, rotated, status,
                 out>>
  /\ UNCHANGED unitVars

\* self._predict(downsize_img(..)): the detector is external and returns
\* any batch
Predict(next) ==
  /\ \E batch \in Batches :
       /\ detections' = batch
       /\ log' = Append(log, Entry("detect", batch))
  /\ pc' = next

Detect1 ==
  /\ pc = "detect1"
  /\ Predict("check1")
  /\ UNCHANGED <<img, margin, padded_img, biggest_face_idx, rotated, status,
                 out>>
  /\ UNCHANGED unitVars

\* NoFaceFound without the return: run goes on to the second detection
NoFaceFound_noreturn ==
  /\ pc = "check1"
  /\ Len(detections) = 0
  /\ status' = NoFaceMsg
  /\ out' = img
  /\ pc' = "detect2"
  /\ UNCHANGED <<img, margin, padded_img, detections, biggest_face_idx,
                 rotated, log>>
  /\ UNCHANGED unitVars

NoFaceFound ==
  /\ pc = "check1"
  /\ Len(detections) = 0
  /\ status' = NoFaceMsg
  /\ out' = img
  /\ pc' = "done"
  /\ UNCHANGED <<img, margin, padded_img, detections, biggest_face_idx,
                 rotated, log>>
  /\ UNCHANGED unitVars

\* biggest_face_idx = get_idx_of_biggest_face(detections); the call raises
\* on an empty batch and the exception leaves run
Select(next) ==
  /\ log' = Append(log, Entry("select", detections))
  /\ IF Len(detections) = 0
       THEN pc' = "raised" /\ UNCHANGED biggest_face_idx
       ELSE /\ biggest_face_idx' = get_idx_of_biggest_face(detections)
            /\ pc' = next

\* Select1 without the emptiness check of the batch
Select1_unchecked ==
  /\ pc = "check1"
  /\ Select("align")
  /\ UNCHANGED <<img, margin, padded_img, detections, rotated, status, out>>
  /\ UNCHANGED unitVars

Select1 ==
  /\ pc = "check1"
  /\ Len(detections) # 0
  /\ Select("align")
  /\ UNCHANGED <<img, margin, padded_img, detections, rotated, status, out>>
  /\ UNCHANGED unitVars

Align ==
  /\ pc = "align"
  /\ rotated' = reset_face_angle(padded_img, At(detections, biggest_face_idx))
  /\ log' = Append(log, Entry("rotate", <<>>))
  /\ pc' = "detect2"
  /\ UNCHANGED <<img, margin, padded_img, detections, biggest_face_idx,
                 status, out>>
  /\ UNCHANGED unitVars

Detect2 ==
  /\ pc = "detect2"
  /\ Predict("check2")
  /\ UNCHANGED <<img, margin, padded_img, biggest_face_idx, rotated, status,
                 out>>
  /\ UNCHANGED unitVars

\* NoFaceAfterRotation returning the padded image
NoFaceAfterRotation_padded ==
  /\ pc = "check2"
  /\ Len(detections) = 0
  /\ status' = NoFaceAfterRotationMsg
  /\ out' = padded_img
  /\ pc' = "done"
  /\ UNCHANGED <<img, margin, padded_img, detections, biggest_face_idx,
                 rotated, log>>
  /\ UNCHANGED unitVars

NoFaceAfterRotation ==
  /\ pc = "check2"
  /\ Len(detections) = 0
  /\ status' = NoFaceAfterRotationMsg
  /\ out' = img
  /\ pc' = "done"
  /\ UNCHANGED <<img, margin, padded_img, detections, biggest_face_idx,
                 rotated, log>>
  /\ UNCHANGED unitVars

Select2 ==
  /\ pc = "check2"
  /\ Len(detections) # 0
  /\ Select("crop")
  /\ UNCHANGED <<img, margin, padded_img, detections, rotated, status, out>>
  /\ UNCHANGED unitVars

\* Crop taking the crop from the padded image instead of the rotated one
Crop_padded ==
  /\ pc = "crop"
  /\ out' = crop_face_from_img(padded_img, At(detections, biggest_face_idx),
                               margin, <<1, 1>>)
  /\ status' = ""
  /\ log' = Append(log, Entry("crop", <<>>))
  /\ pc' = "done"
  /\ UNCHANGED <<img, margin, padded_img, detections, biggest_face_idx,
                 rotated>>
  /\ UNCHANGED unitVars

\* cropped_image = crop_face_from_img(..); return "", cropped_image
Crop ==
  /\ pc = "crop"
  /\ out' = crop_face_from_img(rotated, At(detections, biggest_face_idx),
                               margin, <<1, 1>>)
  /\ status' = ""
  /\ log' = Append(log, Entry("crop", <<>>))
  /\ pc' = "done"
  /\ UNCHANGED <<img, margin, padded_img, detections, biggest_face_idx,
                 rotated>>
  /\ UNCHANGED unitVars

Next ==
  \/ Prepare
  \/ Detect1
  \/ NoFaceFound
  \/ Select1
  \/ Align
  \/ Detect2
  \/ NoFaceAfterRotation
  \/ Select2
  \/ Crop

Spec == Init /\ [][Next]_vars

\* run is synchronous straight-line code: once called, every enabled step
\* is taken
FairSpec == Init /\ [][Next]_vars /\ WF_vars(Next)

----------------------------------------------------------------------------
(* Unit calls: the inputs are drawn by UnitInit, one action applies each   *)
(* function                                                                *)

Coords == -1..MaxCoord

Boxes == {<<y0, x0, y1, x1>> : y0 \in Coords, x0 \in Coords,
                               y1 \in Coords, x1 \in Coords}

Ratios == {<<rh, rw>> : rh \in 1..MaxRatio, rw \in 1..MaxRatio}

Values == (-(MaxCoord + 5))..(MaxCoord + 5) \cup {-100, 100}

MarginSpecs ==
  { IntMargin(0), IntMargin(5), IntMargin(30), IntMargin(-2),
    StrMargin(<<"0", "%">>), StrMargin(<<"1", "0", "%">>),
    StrMargin(<<"2", "5", "%">>), StrMargin(<<"3", "0", "%">>),
    StrMargin(<<"5", "0", "%">>), StrMargin(<<"1", "0", "0", "%">>),
    StrMargin(<<"-", "5", "0", "%">>) }

UnitMargins == {DefaultMargin, ZeroMargin, PercentMargin, NegativeMargin}

UnitImages == {Pattern(h, w, c, seed) :
                 h \in Dims, w \in Dims, c \in {1, 3}, seed \in 0..MaxSeed}

\* the calls under test: a function name and the tuple of its arguments
UnitCall ==
  \/ /\ op = "get_margin"
     /\ \E v \in Values, m \in MarginSpecs : args = <<v, m>>
  \/ /\ op = "maintain_ratio"
     /\ \E b \in Boxes, r \in Ratios : args = <<b, r>>
  \/ /\ op = "recalculate_coordinates"
     /\ \E self \in UnitMargins, b \in Boxes, h \in Dims, w \in Dims,
           r \in Ratios : args = <<self, b, h, w, r>>
  \/ /\ op = "get_idx_of_biggest_face"
     /\ \E ds \in Batches \ {<<>>} : args = <<ds>>
  \/ /\ op = "make_image_rectangle"
     /\ \E im \in UnitImages : args = <<im>>
  \/ /\ op = "reset_face_angle"
     /\ \E im \in UnitImages, d \in DetSet : args = <<im, d>>

UnitInit ==
  /\ pc = "idle"
  /\ img = NoImage
  /\ margin = DefaultMargin
  /\ padded_img = NoImage
  /\ detections = <<>>
  /\ biggest_face_idx = -1
  /\ rotated = NoImage
  /\ status = ""
  /\ out = NoImage
  /\ log = <<>>
  /\ UnitCall
  /\ called = FALSE
  /\ ret = <<>>

Return(value) ==
  /\ ~called
  /\ ret' = value
  /\ called' = TRUE
  /\ UNCHANGED <<op, args>>
  /\ UNCHANGED runVars

Call_get_margin ==
  /\ op = "get_margin"
  /\ Return(get_margin(args[1], args[2]))

Call_maintain_ratio ==
  /\ op = "maintain_ratio"
  /\ Return(maintain_ratio(args[1][1], args[1][2], args[1][3], args[1][4],
                           args[2]))

Call_recalculate_coordinates ==
  /\ op = "recalculate_coordinates"
  /\ Return(recalculate_coordinates(args[1], args[2][1], args[2][2],
                                    args[2][3], args[2][4], args[3], args[4],
                                    args[5]))

Call_get_idx_of_biggest_face ==
  /\ op = "get_idx_of_biggest_face"
  /\ Return(get_idx_of_biggest_face(args[1]))

Call_make_image_rectangle ==
  /\ op = "make_image_rectangle"
  /\ Return(make_image_rectangle(args[1]))

Call_reset_face_angle ==
  /\ op = "reset_face_angle"
  /\ Return(reset_face_angle(args[1], args[2]))

UnitNext ==
  \/ Call_get_margin
  \/ Call_maintain_ratio
  \/ Call_recalculate_coordinates
  \/ Call_get_idx_of_biggest_face
  \/ Call_make_image_rectangle
  \/ Call_reset_face_angle

UnitSpec == UnitInit /\ [][UnitNext]_vars

----------------------------------------------------------------------------
(* Properties of PhaseOne.run *)

Steps == [i \in 1..Len(log) |-> log[i].step]

IsDetect(e) == e.step = "detect"
IsSelect(e) == e.step = "select"

DetectEntries == SelectSeq(log, IsDetect)
SelectEntries == SelectSeq(log, IsSelect)

Returned == pc = "done"

\* C1: whenever run returns a non-empty status, the returned image is the
\* caller's input image, not padded, not rotated and not cropped; and when
\* the first detection batch is empty the status is exactly the no-face
\* warning.
C1_FallbackIsInput ==
  Returned =>
    /\ status # "" => /\ out = img
                      /\ out.ops = <<>>
                      /\ out.shape = img.shape
    /\ DetectEntries[1].batch = <<>> =>
         status = "Warning: No face detected. Returning original image"

\* a run that failed after the rotation of an image that needed padding
C1_Witness ==
  /\ Returned
  /\ status # ""
  /\ Len(DetectEntries) = 2
  /\ padded_img # img
  /\ rotated # padded_img
  /\ out = img

\* the box the crop must have: the largest detection d of a batch, scaled
\* to pixels against the image, margin-expanded, ratio-corrected and clamped
LargestOf(batch) == At(batch, get_idx_of_biggest_face(batch))

ExpectedBox(im, d, m) ==
  LET p == <<TruncDiv(d[1] * im.shape[1], Den),
             TruncDiv(d[2] * im.shape[2], Den),
             TruncDiv(d[3] * im.shape[1], Den),
             TruncDiv(d[4] * im.shape[2], Den)>>
  IN recalculate_coordinates(m, p[1], p[2], p[3], p[4], im.shape[1],
                             im.shape[2], <<1, 1>>)

\* C2: when both detection passes return a non-empty batch, run returns the
\* empty status and the slice of the rotated image at the box derived from
\* the largest detection of the second batch.
C2_CropFromSecondDetection ==
  (/\ Returned
   /\ Len(DetectEntries) = 2
   /\ DetectEntries[1].batch # <<>>
   /\ DetectEntries[2].batch # <<>>) =>
    LET b == ExpectedBox(rotated, LargestOf(DetectEntries[2].batch), margin)
    IN /\ status = ""
       /\ rotated = reset_face_angle(make_image_rectangle(img),
                                     LargestOf(DetectEntries[1].batch))
       /\ out.shape = <<b[3] - b[1], b[4] - b[2], rotated.shape[3]>>
       /\ out.px = rotated.px
       /\ out.ops = Append(rotated.ops, [f |-> "slice", p |-> b])

\* a successful run whose two passes chose detections with different boxes,
\* where the first-pass box would have given another crop
C2_Witness ==
  /\ Returned
  /\ status = ""
  /\ Len(DetectEntries) = 2
  /\ LargestOf(DetectEntries[1].batch) # LargestOf(DetectEntries[2].batch)
  /\ ExpectedBox(rotated, LargestOf(DetectEntries[1].batch), margin)
       # ExpectedBox(rotated, LargestOf(DetectEntries[2].batch), margin)
  /\ out.shape[1] > 0
  /\ out.shape[2] > 0

\* C3: the selector is only ever called with a non-empty batch, and its
\* empty-batch failure never leaves run.
C3_SelectorGetsNonEmptyBatch ==
  /\ \A i \in 1..Len(log) : log[i].step = "select" => log[i].batch # <<>>
  /\ pc # "raised"

\* a run that called the selector on both passes
C3_Witness ==
  /\ Returned
  /\ Len(SelectEntries) = 2
  /\ SelectEntries[1].batch # SelectEntries[2].batch

FullOrder ==
  <<"pad", "detect", "select", "rotate", "detect", "select", "crop">>

IsPrefix(a, b) == Len(a) <= Len(b) /\ a = SubSeq(b, 1, Len(a))

Outcome ==
  IF status = "" THEN "Success"
  ELSE IF status = NoFaceMsg THEN "NoFaceFound"
  ELSE IF status = NoFaceAfterRotationMsg THEN "NoFaceAfterRotation"
  ELSE "other"

C4_Order ==
  /\ IsPrefix(Steps, FullOrder)
  /\ Len(DetectEntries) <= 2
  /\ (Len(DetectEntries) >= 1 /\ DetectEntries[1].batch = <<>>) =>
       Steps = <<"pad", "detect">>
  /\ Returned =>
       \/ Outcome = "NoFaceFound" /\ Steps = SubSeq(FullOrder, 1, 2)
       \/ Outcome = "NoFaceAfterRotation" /\ Steps = SubSeq(FullOrder, 1, 5)
       \/ Outcome = "Success" /\ Steps = FullOrder
                              /\ Len(DetectEntries) = 2

\* C4: the steps of run occur in the order pad, detect, select, rotate,
\* detect, select, crop; the detector is called at most twice and exactly
\* twice on success; an empty first batch ends the run with no rotation and
\* no second detector call; and every run returns with exactly one of the
\* three outcomes.
C4_SinglePass == []C4_Order /\ <>Returned

\* a run that went through all seven steps
C4_Witness ==
  /\ Returned
  /\ Outcome = "Success"
  /\ Steps = FullOrder

----------------------------------------------------------------------------
(* Properties of the geometry helpers *)

Did(f) == op = f /\ called

\* the percentage each "<percent>%" string of MarginSpecs denotes
PercentOf(s) ==
  CASE s = <<"0", "%">> -> 0
    [] s = <<"1", "0", "%">> -> 10
    [] s = <<"2", "5", "%">> -> 25
    [] s = <<"3", "0", "%">> -> 30
    [] s = <<"5", "0", "%">> -> 50
    [] s = <<"1", "0", "0", "%">> -> 100
    [] s = <<"-", "5", "0", "%">> -> -50

\* a margin component that moves its coordinate outward or not at all
NonNegative(m, coord) ==
  IF m.int THEN m.v >= 0 ELSE PercentOf(m.s) * coord >= 0

InRange(b, h, w) ==
  /\ 0 <= b[1] /\ b[1] <= h
  /\ 0 <= b[3] /\ b[3] <= h
  /\ 0 <= b[2] /\ b[2] <= w
  /\ 0 <= b[4] /\ b[4] <= w

Ordered(b) == b[1] <= b[3] /\ b[2] <= b[4]

C5_Precondition ==
  /\ Ordered(args[2])
  /\ NonNegative(args[1].top, args[2][1])
  /\ NonNegative(args[1].left, args[2][2])
  /\ NonNegative(args[1].bottom, args[2][3])
  /\ NonNegative(args[1].right, args[2][4])

\* C5 as stated: for all inputs the box returned by
\* Margin.recalculate_coordinates satisfies 0 <= y_min <= y_max <= H and
\* 0 <= x_min <= x_max <= W.
C5_ClampedAndOrdered ==
  Did("recalculate_coordinates") =>
    InRange(ret, args[3], args[4]) /\ Ordered(ret)

\* C5 amended: every returned coordinate lies in its range, 0..H or 0..W,
\* for all inputs; y_min <= y_max and x_min <= x_max hold when the input box
\* is ordered and no margin is negative (an absolute margin >= 0, a
\* percentage whose product with its coordinate is >= 0).
C5_ClampedOrderedIfInputIs ==
  Did("recalculate_coordinates") =>
    /\ InRange(ret, args[3], args[4])
    /\ C5_Precondition => Ordered(ret)

\* an ordered box that reaches outside the image on both sides of an axis
C5_Witness ==
  /\ Did("recalculate_coordinates")
  /\ C5_Precondition
  /\ args[2][1] < 0
  /\ args[2][3] > args[3]
  /\ args[1] = ZeroMargin
  /\ ret[1] = 0
  /\ ret[3] = args[3]

Abs(n) == IF n >= 0 THEN n ELSE -n

\* C6: for an ordered box and a ratio (rh, rw) of positive integers, the box
\* returned by maintain_ratio satisfies
\* (y_max - y_min) * rw = (x_max - x_min) * rh up to 1, and neither its
\* height nor its width is smaller than the input's.
C6_RatioMaintained ==
  (Did("maintain_ratio") /\ Ordered(args[1])) =>
    LET h0 == args[1][3] - args[1][1]
        w0 == args[1][4] - args[1][2]
        h == ret[3] - ret[1]
        w == ret[4] - ret[2]
        rh == args[2][1]
        rw == args[2][2]
    IN /\ Abs(h * rw - w * rh) <= 1
       /\ h >= h0
       /\ w >= w0

\* C7 as stated: get_margin returns an absolute margin unchanged and
\* floor(base_value * percent / 100) for a percentage string, for every
\* integer base_value including the negative ones.
C7_PercentIsFloor ==
  Did("get_margin") =>
    IF args[2].int THEN ret = args[2].v
    ELSE LET n == args[1] * PercentOf(args[2].s)
         IN 100 * ret <= n /\ n < 100 * ret + 100

\* C7 amended: get_margin returns an absolute margin unchanged and, for a
\* percentage string, base_value * percent / 100 truncated toward zero,
\* computed against the value passed in; this is the floor when
\* base_value * percent >= 0, so (100, "10%") gives 10 and (7, "10%") gives 0.
C7_PercentIsTruncation ==
  Did("get_margin") =>
    IF args[2].int THEN ret = args[2].v
    ELSE LET n == args[1] * PercentOf(args[2].s)
         IN /\ n >= 0 => 100 * ret <= n /\ n < 100 * ret + 100
            /\ n < 0 => 100 * ret >= n /\ n > 100 * ret - 100
            /\ (args[1] = 100 /\ PercentOf(args[2].s) = 10) => ret = 10
            /\ (args[1] = 7 /\ PercentOf(args[2].s) = 10) => ret = 0

\* a percentage of a negative value that is not a whole number
C7_Witness ==
  /\ Did("get_margin")
  /\ ~args[2].int
  /\ args[1] = -7
  /\ PercentOf(args[2].s) = 10
  /\ ret = 0

BoxArea(d) == (d[3] - d[1]) * (d[4] - d[2])

\* C8: for a non-empty batch get_idx_of_biggest_face returns a valid index
\* whose detection has an area not smaller than any other's; for the boxes
\* (0,0,0.1,0.1) and (0,0,0.5,0.5) it is the index of the second.
C8_BiggestFace ==
  Did("get_idx_of_biggest_face") =>
    LET ds == args[1]
    IN /\ ret \in 0..(Len(ds) - 1)
       /\ \A j \in 1..Len(ds) : BoxArea(ds[ret + 1]) >= BoxArea(ds[j])
       /\ (/\ Len(ds) = 2
           /\ SubSeq(ds[1], 1, 4) = <<0, 0, 1, 1>>
           /\ SubSeq(ds[2], 1, 4) = <<0, 0, 5, 5>>) => ret = 1

\* a batch whose largest detection is not the first one
C8_Witness ==
  /\ Did("get_idx_of_biggest_face")
  /\ Len(args[1]) = 2
  /\ BoxArea(args[1][1]) < BoxArea(args[1][2])
  /\ ret = 1

Zeros(c) == [ch \in 1..c |-> 0]

\* C9: make_image_rectangle returns a max(h,w) x max(h,w) image with the
\* same channel count; for h > w the left zero pad is floor((h-w)/2) wide
\* and the right one takes the rest, for w > h the same split applies to
\* top and bottom; the original pixels lie unchanged between the pads; a
\* square image is returned unchanged.
C9_SquarePadding ==
  Did("make_image_rectangle") =>
    LET im == args[1]
        h == im.shape[1]
        w == im.shape[2]
        c == im.shape[3]
        n == IF h >= w THEN h ELSE w
        left == IF h > w THEN (h - w) \div 2 ELSE 0
        top == IF w > h THEN (w - h) \div 2 ELSE 0
    IN /\ ret.shape = <<n, n, c>>
       /\ ret.ops = <<>>
       /\ Len(ret.px) = n
       /\ \A r \in 1..n :
            /\ Len(ret.px[r]) = n
            /\ \A col \in 1..n :
                 ret.px[r][col] =
                   IF /\ r > top /\ r <= top + h
                      /\ col > left /\ col <= left + w
                     THEN im.px[r - top][col - left]
                     ELSE Zeros(c)
       /\ h = w => ret = im

\* an image taller than wide by an odd number of columns
C9_Witness ==
  /\ Did("make_image_rectangle")
  /\ args[1].shape[1] - args[1].shape[2] = 1
  /\ ret.shape[2] = args[1].shape[1]
  /\ ret.px[1][ret.shape[2]] = Zeros(args[1].shape[3])

\* C10: the image returned by reset_face_angle has the height and the width
\* of its input, square or not.
C10_SameDimensions ==
  Did("reset_face_angle") =>
    /\ ret.shape[1] = args[1].shape[1]
    /\ ret.shape[2] = args[1].shape[2]

=============================================================================
